---------------------------- MODULE Spec2Model ----------------------------
(***************************************************************************)
(* waypaper daemon (src/bin/daemon.rs, src/config.rs): output discovery,   *)
(* the packed shared-memory layout, the configure barrier, the compositing *)
(* pass and the configuration reload, as one state machine.  Every handler *)
(* runs under State's mutex from lock() to return, so one handler is one   *)
(* action.                                                                  *)
(***************************************************************************)
EXTENDS Integers, Sequences, FiniteSets, TLC

(* ------------------------------ bounds --------------------------------- *)
\* wl_output globals the registry announces
MaxOutputs == 2
\* Done notifications handled in one run (finalized monitors)
MaxDone == 2
\* layer-surface Configure notifications handled in one run
MaxConfigure == 3
\* ConfigChanged events sent into the mpsc channel in one run
MaxSent == 2
\* Mode and Name notifications handled in one run
MaxNotes == 2

(* ------------------------------ inputs --------------------------------- *)
\* names a compositor gives its outputs; "" is String::default()
Names == {"a", "b"}
\* (width, height) of the modes a compositor reports
Modes == {<<1, 1>>, <<2, 1>>}
\* wl_output::Mode bitfield values a Mode event carries
ModeFlags == {{"current"}, {"current", "preferred"}, {"preferred"}}
\* OutputPreferences.background: None
NoBackground == "none"

(* --------------------------- generic helpers --------------------------- *)
Max(a, b) == IF a >= b THEN a ELSE b

\* Vec::remove(i), i zero-based and in range
VecRemove(v, i) == SubSeq(v, 1, i) \o SubSeq(v, i + 2, Len(v))

\* HashMap::insert
MapInsert(m, k, v) == [x \in (DOMAIN m) \cup {k} |-> IF x = k THEN v ELSE m[x]]

EmptyMap == [x \in {} |-> 0]

(* --------------------------- OutputBuilder ----------------------------- *)
\* #[derive(Default)] OutputBuilder; wl_output 0 is None, o > 0 is Some(proxy o)
OutputBuilder_default == [name |-> "", width |-> 0, height |-> 0, wl_output |-> 0]

OutputBuilder_build(b) ==
    [name |-> b.name, width |-> b.width, height |-> b.height,
     pixel_count |-> b.width * b.height, wl_output |-> b.wl_output]

\* State::next_output_id
next_output_id(builders) == Len(builders)

\* the builder an output event works on: get_mut(output_id), or a pushed default.
\* at is the one-based position of `builder` in builders
get_builder(builders, output_id) ==
    IF output_id < Len(builders)
    THEN [builders |-> builders, at |-> output_id + 1]
    ELSE [builders |-> Append(builders, OutputBuilder_default),
          at |-> Len(builders) + 1]


(* ------------------------------ config.rs ------------------------------ *)
\* Mode::from_str(s).ok(): "" stands for None
Mode_from_str(s) == IF s \in {"center", "fill", "fit", "stretch"} THEN s ELSE ""

\* Mode::default()
Mode_default == "fill"

\* the ini files the config path can hold: section name -> keys; a key that is
\* absent from the section is "absent"
IniFiles ==
    { ("a" :> [background |-> "good.png", mode |-> "bogus"]) @@
      ("b" :> [background |-> "absent", mode |-> "fit"]),
      ("a" :> [background |-> "missing.png", mode |-> "stretch"]) @@
      ("b" :> [background |-> "good.png", mode |-> "center"]),
      ("a" :> [background |-> "good.png", mode |-> "stretch"]) @@
      ("b" :> [background |-> "good.png", mode |-> "fit"]) }

\* what ini::Ini::load_from_file finds at the config path
DiskStates == [loadable : {TRUE}, ini : IniFiles] \cup
              {[loadable |-> FALSE, ini |-> EmptyMap]}

parse_config(ini) ==
    [n \in DOMAIN ini |->
        [background |-> IF ini[n].background = "absent" THEN NoBackground
                        ELSE ini[n].background,
         mode |-> IF ini[n].mode = "absent" \/ Mode_from_str(ini[n].mode) = ""
                  THEN Mode_default
                  ELSE Mode_from_str(ini[n].mode)]]

\* Config::new: an unloadable file gives the empty Ini
Config_new(disk) ==
    [config_path |-> "waypaper.ini",
     output_preferences |->
        [some |-> TRUE,
         map |-> parse_config(IF disk.loadable THEN disk.ini ELSE EmptyMap)]]

Config_reload_clearing(cfg, disk) ==
    IF cfg.config_path # "none" /\ disk.loadable
    THEN [ok |-> TRUE,
          config |-> [cfg EXCEPT !.output_preferences =
                         [some |-> TRUE, map |-> parse_config(disk.ini)]]]
    ELSE [ok |-> FALSE,
          config |-> [cfg EXCEPT !.output_preferences =
                         [some |-> TRUE, map |-> parse_config(EmptyMap)]]]

\* Config::reload: Err leaves self untouched
Config_reload(cfg, disk) ==
    IF cfg.config_path = "none" THEN [ok |-> FALSE, config |-> cfg]
    ELSE IF ~disk.loadable THEN [ok |-> FALSE, config |-> cfg]
    ELSE [ok |-> TRUE,
          config |-> [cfg EXCEPT !.output_preferences =
                         [some |-> TRUE, map |-> parse_config(disk.ini)]]]

(* ------------------------------- layout -------------------------------- *)
\* `x as i32` of a usize x: the value itself while x <= i32::MAX, which holds of
\* every size the bounded monitors reach (3 * total_pixels stays far below 2^31)
AsI32(x) == IF x <= 2147483647 THEN x ELSE x - 2147483647 - 2147483647 - 2

NoFile == [some |-> FALSE, len |-> 0]
NoPool == [some |-> FALSE, size |-> 0]

setup_buffer_file_stale(file, pool, max_size, total, shm_bound) ==
    LET file1 == [some |-> TRUE, len |-> Max(max_size, total * 3)] IN
    IF pool.some
    THEN [panicked |-> FALSE, buffer_file |-> file1,
          shm_pool |-> [some |-> TRUE, size |-> AsI32(max_size)],
          max_buffer_size |-> Max(max_size, total * 3)]
    ELSE IF shm_bound
    THEN [panicked |-> FALSE, buffer_file |-> file1,
          shm_pool |-> [some |-> TRUE, size |-> AsI32(total * 3)],
          max_buffer_size |-> max_size]
    ELSE [panicked |-> TRUE, buffer_file |-> file1, shm_pool |-> pool,
          max_buffer_size |-> max_size]

\* State::setup_buffer_file; panicked is globals.shm.as_ref().unwrap() on None
setup_buffer_file(file, pool, max_size, total, shm_bound) ==
    LET file1 == [some |-> TRUE, len |-> Max(max_size, total * 3)] IN
    IF pool.some
    THEN [panicked |-> FALSE, buffer_file |-> file1,
          shm_pool |-> [some |-> TRUE, size |-> AsI32(total * 3)],
          max_buffer_size |-> Max(max_size, total * 3)]
    ELSE IF shm_bound
    THEN [panicked |-> FALSE, buffer_file |-> file1,
          shm_pool |-> [some |-> TRUE, size |-> AsI32(total * 3)],
          max_buffer_size |-> max_size]
    ELSE [panicked |-> TRUE, buffer_file |-> file1, shm_pool |-> pool,
          max_buffer_size |-> max_size]

\* the create_buffer call of State::setup_buffer
create_buffer(output, offset) ==
    [name |-> output.name, offset |-> AsI32(offset),
     width |-> AsI32(output.width), height |-> AsI32(output.height),
     stride |-> AsI32(output.width) * 3]

RECURSIVE setup_buffers_loop(_, _, _, _)
setup_buffers_loop(outs, i, offset, calls) ==
    IF i > Len(outs) THEN calls
    ELSE setup_buffers_loop(outs, i + 1, offset + outs[i].pixel_count * 3,
                            Append(calls, create_buffer(outs[i], offset)))

RECURSIVE setup_buffers_loop_pixels(_, _, _, _)
setup_buffers_loop_pixels(outs, i, offset, calls) ==
    IF i > Len(outs) THEN calls
    ELSE setup_buffers_loop_pixels(outs, i + 1, offset + outs[i].pixel_count,
                            Append(calls, create_buffer(outs[i], offset)))

\* offsets assigned from the newest monitor backwards
RECURSIVE pixels_after(_, _)
pixels_after(outs, i) ==
    IF i >= Len(outs) THEN 0
    ELSE outs[i + 1].pixel_count + pixels_after(outs, i + 1)

setup_buffers_calls_newest_first(outs) ==
    [i \in 1..Len(outs) |-> create_buffer(outs[i], 3 * pixels_after(outs, i))]

setup_buffers_calls_pixels(outs) == setup_buffers_loop_pixels(outs, 1, 0, <<>>)

\* the loop of State::setup_buffers: the setup_buffer calls, in order
setup_buffers_calls(outs) == setup_buffers_loop(outs, 1, 0, <<>>)

\* buffers after the setup_buffer calls: each inserts under output.name
RECURSIVE insert_buffers(_, _, _)
insert_buffers(bufs, calls, i) ==
    IF i > Len(calls) THEN bufs
    ELSE insert_buffers(MapInsert(bufs, calls[i].name, calls[i]), calls, i + 1)

(* ----------------------------- compositing ----------------------------- *)
\* image::io::Reader::open(path)?.with_guessed_format()?.decode()?
image_load(path) == IF path = "good.png" THEN "ok" ELSE "err"

\* apply_image_mode: the image comes out width x height, or the call panics:
\* Center is todo!(), and Fit places the resized image, which is never smaller
\* than 1x1, with copy_from(..).unwrap() in a width x height canvas
apply_image_mode(mode, width, height) ==
    IF mode = "center" THEN "panic"
    ELSE IF mode = "fit" /\ (width = 0 \/ height = 0) THEN "panic"
    ELSE "ok"

NoPass == [res |-> "none", n |-> 0, written |-> <<>>, pos |-> 0]

RECURSIVE draw_loop_rgba(_, _, _, _, _)
draw_loop_rgba(outs, prefs, i, pos, written) ==
    IF i > Len(outs)
    THEN [res |-> "ok", n |-> Len(outs), written |-> written, pos |-> pos]
    ELSE LET output == outs[i]
             n == output.pixel_count * 3
             raw == output.width * output.height * 4
         IN IF output.name \in DOMAIN prefs
               /\ prefs[output.name].background # NoBackground
            THEN IF image_load(prefs[output.name].background) = "err"
                 THEN [res |-> "err", n |-> Len(outs), written |-> written,
                       pos |-> pos]
                 ELSE IF apply_image_mode(prefs[output.name].mode,
                                          output.width, output.height) = "panic"
                 THEN [res |-> "panic", n |-> Len(outs), written |-> written,
                       pos |-> pos]
                 ELSE draw_loop_rgba(outs, prefs, i + 1, pos + raw,
                        Append(written, [index |-> i, offset |-> pos,
                                         length |-> raw, fill |-> "image"]))
            ELSE draw_loop_rgba(outs, prefs, i + 1, pos + n,
                        Append(written, [index |-> i, offset |-> pos,
                                         length |-> n, fill |-> "black"]))

\* the for loop of State::draw_all from output i on; pos is the file cursor,
\* written the regions written so far.  write_default_color writes 3 bytes
\* pixel_count times, write_image the raw RGB8 bytes of a width x height image
RECURSIVE draw_loop(_, _, _, _, _)
draw_loop(outs, prefs, i, pos, written) ==
    IF i > Len(outs)
    THEN [res |-> "ok", n |-> Len(outs), written |-> written, pos |-> pos]
    ELSE LET output == outs[i]
             n == output.pixel_count * 3
             raw == output.width * output.height * 3
         IN IF output.name \in DOMAIN prefs
               /\ prefs[output.name].background # NoBackground
            THEN IF image_load(prefs[output.name].background) = "err"
                 THEN [res |-> "err", n |-> Len(outs), written |-> written,
                       pos |-> pos]
                 ELSE IF apply_image_mode(prefs[output.name].mode,
                                          output.width, output.height) = "panic"
                 THEN [res |-> "panic", n |-> Len(outs), written |-> written,
                       pos |-> pos]
                 ELSE draw_loop(outs, prefs, i + 1, pos + raw,
                        Append(written, [index |-> i, offset |-> pos,
                                         length |-> raw, fill |-> "image"]))
            ELSE draw_loop(outs, prefs, i + 1, pos + n,
                        Append(written, [index |-> i, offset |-> pos,
                                         length |-> n, fill |-> "black"]))

\* State::draw_all: res is "ok", "err" (an Err through `?`) or "panic"; n is the
\* number of monitors the pass had to write
draw_all(outs, cfg, file) ==
    IF ~file.some
    THEN [res |-> "panic", n |-> Len(outs), written |-> <<>>, pos |-> 0]
    ELSE IF ~cfg.output_preferences.some
    THEN [res |-> "panic", n |-> Len(outs), written |-> <<>>, pos |-> 0]
    ELSE draw_loop(outs, cfg.output_preferences.map, 1, 0, <<>>)


(* ------------------------------- state --------------------------------- *)
VARIABLES
    running,            \* the process is alive (main's join() has not returned)
    poisoned,           \* a thread panicked while holding State's mutex
    reloader,           \* the reload consumer thread: "recv" (in rx.recv()),
                        \* "lock" (in state.lock()), "handle" or "dead"
    mutex,              \* who holds State's mutex: "free", "dispatch", "reload"
    dispatcher,         \* the dispatch thread: "wait" (in blocking_dispatch,
                        \* no handler running) or "handler"
    queue,              \* ConfigChanged events in the mpsc channel
    notes,              \* Mode and Name notifications handled so far
    sent,               \* ConfigChanged events sent so far
    globals,            \* State.globals: the interfaces bound
    shm_formats,        \* State.shm_formats
    proxies,            \* bound wl_output proxies: proxies[o] is o's user data
    output_builders,    \* State.output_builders
    outputs,            \* State.outputs
    surfaces,           \* State.surfaces: name -> surface (its creation number)
    buffers,            \* State.buffers: name -> the create_buffer call
    surface_configured, \* State.surface_configured
    shm_pool,           \* State.shm_pool and the size the pool has
    buffer_file,        \* State.buffer_file and its length
    max_buffer_size,    \* State.max_buffer_size
    total_pixels,       \* State.total_pixels
    config,             \* State.config
    delivered,          \* per proxy: what the compositor sent since its last Done
    finalized,          \* per Output: what had been delivered for it at its Done
    acks,               \* per created layer surface: ack_configure requests sent
    attached,           \* surfaces a buffer has been attached to
    regions,            \* the setup_buffer calls of the last setup_buffers
    releases,           \* setup_buffers runs so far
    pass,               \* the last draw_all: result, regions written, cursor
    handle_result,      \* result of the last State::handle
    handle_steps        \* what the last State::handle did, in order

vars == <<running, poisoned, reloader, queue, sent, notes, globals,
          shm_formats, proxies,
          output_builders, outputs, surfaces, buffers, surface_configured,
          shm_pool, buffer_file, max_buffer_size, total_pixels, config,
          delivered, finalized, acks, attached, regions, releases, pass,
          handle_result, handle_steps, mutex, dispatcher>>

threadVars == <<running, poisoned, reloader>>
lockVars == <<mutex, dispatcher>>
globalVars == <<globals, shm_formats>>
\* the fields of State, with the model's record of what was done to them
stateVars == <<globals, shm_formats, proxies, output_builders, delivered, notes,
               outputs, surfaces, shm_pool, buffer_file, max_buffer_size,
               total_pixels, finalized, acks, buffers, surface_configured,
               attached, regions, releases, config, pass, handle_result,
               handle_steps>>
chanVars == <<queue, sent>>
builderVars == <<proxies, output_builders, delivered, notes>>
layoutVars == <<outputs, surfaces, shm_pool, buffer_file, max_buffer_size,
                total_pixels, finalized, acks>>
barrierVars == <<buffers, surface_configured, attached, regions, releases>>

NothingDelivered == [name |-> "", geom |-> <<0, 0>>, geoms |-> {}]

\* main up to the three thread::spawn calls: Config::search found a file
\* (Config::watch unwraps config_path), State::new(config)
Init ==
    /\ running = TRUE
    /\ poisoned = FALSE
    /\ reloader = "recv"
    /\ queue = 0
    /\ sent = 0
    /\ notes = 0
    /\ globals = {}
    /\ shm_formats = <<>>
    /\ proxies = <<>>
    /\ output_builders = <<>>
    /\ outputs = <<>>
    /\ surfaces = EmptyMap
    /\ buffers = EmptyMap
    /\ surface_configured = 0
    /\ shm_pool = NoPool
    /\ buffer_file = NoFile
    /\ max_buffer_size = 0
    /\ total_pixels = 0
    /\ \E disk \in DiskStates : config = Config_new(disk)
    /\ delivered = <<>>
    /\ finalized = <<>>
    /\ acks = <<>>
    /\ attached = {}
    /\ regions = <<>>
    /\ releases = 0
    /\ pass = NoPass
    /\ handle_result = "none"
    /\ handle_steps = <<>>
    /\ mutex = "free"
    /\ dispatcher = "wait"

\* a dispatch handler can take the lock, or has taken it
Dispatching ==
    /\ running /\ ~poisoned
    /\ mutex = (IF dispatcher = "handler" THEN "dispatch" ELSE "free")

\* the MutexGuard a handler holds is dropped at the end of the handler's block
\* and the dispatch thread is back in blocking_dispatch
DispatchReturns == mutex' = "free" /\ dispatcher' = "wait"

(* ----------------------------- wl_registry ----------------------------- *)
\* Global for wl_compositor, wl_shm, zwlr_layer_shell_v1
RegistryGlobal(interface) ==
    /\ Dispatching
    /\ DispatchReturns
    /\ interface \notin globals
    /\ globals' = globals \cup {interface}
    /\ UNCHANGED <<shm_formats, threadVars, chanVars, builderVars, layoutVars,
                   barrierVars,
                   config, pass, handle_result, handle_steps>>

Interfaces == {"wl_compositor", "wl_shm", "zwlr_layer_shell_v1"}

\* Global for wl_output: bind with user data next_output_id().  The registry
\* announces the globals present at start in one batch, so the three
\* interfaces are bound when the first output is
RegistryOutput ==
    /\ Dispatching
    /\ DispatchReturns
    /\ globals = Interfaces
    /\ Len(proxies) < MaxOutputs
    /\ proxies' = Append(proxies, next_output_id(output_builders))
    /\ delivered' = Append(delivered, NothingDelivered)
    /\ UNCHANGED <<threadVars, chanVars, globalVars, output_builders, notes,
                   layoutVars,
                   barrierVars, config, pass, handle_result, handle_steps>>

(* -------------------------------- wl_shm ------------------------------- *)
\* pixel formats a compositor advertises on wl_shm, each once after the bind
Formats == {"argb8888", "xrgb8888"}

\* Format: shm_formats.push(format)
ShmFormat(format) ==
    /\ Dispatching
    /\ DispatchReturns
    /\ "wl_shm" \in globals
    /\ \A i \in 1..Len(shm_formats) : shm_formats[i] # format
    /\ shm_formats' = Append(shm_formats, format)
    /\ UNCHANGED <<globals, threadVars, chanVars, builderVars, layoutVars,
                   barrierVars, config, pass, handle_result, handle_steps>>

(* ------------------------------ wl_output ------------------------------ *)
\* the flags test of the Mode arm
mode_is_current(flags) == flags = {"current"}

OutputMode(o, flags, mode) ==
    /\ Dispatching
    /\ DispatchReturns
    /\ notes < MaxNotes
    /\ notes' = notes + 1
    /\ LET g == get_builder(output_builders, proxies[o])
       IN output_builders' =
            IF mode_is_current(flags)
            THEN [g.builders EXCEPT ![g.at].width = mode[1],
                                    ![g.at].height = mode[2]]
            ELSE g.builders
    /\ delivered' = IF "current" \in flags
                    THEN [delivered EXCEPT ![o].geom = mode,
                                           ![o].geoms = @ \cup {mode}]
                    ELSE delivered
    /\ UNCHANGED <<threadVars, chanVars, globalVars, proxies, layoutVars,
                   barrierVars, config, pass, handle_result, handle_steps>>

OutputName(o, name) ==
    /\ Dispatching
    /\ DispatchReturns
    /\ notes < MaxNotes
    /\ notes' = notes + 1
    /\ LET g == get_builder(output_builders, proxies[o])
       IN output_builders' = [g.builders EXCEPT ![g.at].name = name]
    /\ delivered' = [delivered EXCEPT ![o].name = name]
    /\ UNCHANGED <<threadVars, chanVars, globalVars, proxies, layoutVars,
                   barrierVars, config, pass, handle_result, handle_steps>>

\* the Done arm up to its first panic, if any: stage names how far it got
done_steps(o) ==
    LET id == proxies[o]
        g == get_builder(output_builders, id)
        b1 == [g.builders EXCEPT ![g.at].wl_output = o]
    IN IF id >= Len(b1)
       THEN [stage |-> "remove", builders |-> b1]
       ELSE LET output == OutputBuilder_build(b1[id + 1])
                b2 == VecRemove(b1, id)
            IN IF "wl_compositor" \notin globals
                  \/ "zwlr_layer_shell_v1" \notin globals
               THEN [stage |-> "globals", builders |-> b2, output |-> output]
               ELSE [stage |-> "surface", builders |-> b2, output |-> output]

OutputDone(o) ==
    /\ Dispatching
    /\ DispatchReturns
    /\ Len(outputs) < MaxDone
    /\ LET d == done_steps(o) IN
       /\ output_builders' = d.builders
       /\ IF d.stage = "remove"
          THEN /\ running' = FALSE
               /\ UNCHANGED <<poisoned, reloader, delivered, layoutVars>>
          ELSE IF d.stage = "globals"
          THEN /\ running' = FALSE
               /\ total_pixels' = total_pixels + d.output.pixel_count
               /\ UNCHANGED <<poisoned, reloader, delivered, outputs, surfaces,
                              shm_pool, buffer_file, max_buffer_size,
                              finalized, acks>>
          ELSE LET f == setup_buffer_file(buffer_file, shm_pool, max_buffer_size,
                                          total_pixels + d.output.pixel_count,
                                          "wl_shm" \in globals)
               IN /\ total_pixels' = total_pixels + d.output.pixel_count
                  /\ surfaces' = MapInsert(surfaces, d.output.name,
                                           Len(acks) + 1)
                  /\ acks' = Append(acks, 0)
                  /\ outputs' = Append(outputs, d.output)
                  /\ finalized' = Append(finalized, delivered[o])
                  /\ delivered' = [delivered EXCEPT ![o] = NothingDelivered]
                  /\ buffer_file' = f.buffer_file
                  /\ shm_pool' = f.shm_pool
                  /\ max_buffer_size' = f.max_buffer_size
                  /\ running' = ~f.panicked
                  /\ UNCHANGED <<poisoned, reloader>>
    /\ UNCHANGED <<chanVars, globalVars, proxies, notes, barrierVars, config, pass,
                   handle_result, handle_steps>>

(* ------------------------- zwlr_layer_surface_v1 ----------------------- *)
\* the surfaces the setup_buffer calls attach a buffer to
attach_targets(surfs, calls) == {surfs[calls[i].name] : i \in 1..Len(calls)}

\* the test that releases the barrier
barrier_open(surfs, configured) == Cardinality(DOMAIN surfs) = configured

LayerSurfaceConfigure(s) ==
    /\ Dispatching
    /\ DispatchReturns
    /\ surface_configured < MaxConfigure
    /\ acks' = [acks EXCEPT ![s] = @ + 1]
    /\ surface_configured' = surface_configured + 1
    /\ IF barrier_open(surfaces, surface_configured + 1)
       THEN LET calls == setup_buffers_calls(outputs)
                p == draw_all(outputs, config, buffer_file)
            IN /\ regions' = calls
               /\ buffers' = insert_buffers(buffers, calls, 1)
               /\ attached' = attached \cup attach_targets(surfaces, calls)
               /\ releases' = releases + 1
               /\ pass' = p
               /\ running' = (p.res = "ok")
       ELSE UNCHANGED <<regions, buffers, attached, releases, pass, running>>
    /\ UNCHANGED <<poisoned, reloader, chanVars, globalVars, builderVars, outputs,
                   surfaces, shm_pool, buffer_file, max_buffer_size,
                   total_pixels, finalized, config, handle_result,
                   handle_steps>>

\* any notification whose handler locks a poisoned mutex: lock().unwrap() panics,
\* the dispatch thread ends and main's join().unwrap() ends the process
DispatchPoisoned ==
    /\ running
    /\ poisoned
    /\ running' = FALSE
    /\ UNCHANGED <<poisoned, reloader, chanVars, globalVars, builderVars,
                   layoutVars, barrierVars, config, pass, handle_result,
                   handle_steps, lockVars>>

(* ------------------------------- reload -------------------------------- *)
\* the notify watcher's closure on Access(Close(Write))
FileWritten ==
    /\ running
    /\ sent < MaxSent
    /\ queue' = queue + 1
    /\ sent' = sent + 1
    /\ UNCHANGED <<threadVars, globalVars, builderVars, layoutVars, barrierVars,
                   config, pass, handle_result, handle_steps, lockVars>>

\* the signal thread on SIGUSR1
Sigusr1 ==
    /\ running
    /\ sent < MaxSent
    /\ queue' = queue + 1
    /\ sent' = sent + 1
    /\ UNCHANGED <<threadVars, globalVars, builderVars, layoutVars, barrierVars,
                   config, pass, handle_result, handle_steps, lockVars>>

\* the write calls of a draw_all pass, as steps of the handler
write_steps(written) ==
    [k \in 1..Len(written) |->
        [op |-> "write", index |-> written[k].index, surfaces |-> {}]]

handle_damage_first(cfg, disk, outs, file, surfs) ==
    LET r == Config_reload(cfg, disk) IN
    IF ~r.ok THEN [result |-> "reload_err", config |-> r.config, drew |-> FALSE,
                   pass |-> NoPass, steps |-> <<>>]
    ELSE LET p == draw_all(outs, r.config, file)
             replaced == <<[op |-> "replace", index |-> 0, surfaces |-> {}]>>
             damaged == <<[op |-> "damage_commit", index |-> 0,
                           surfaces |-> {surfs[n] : n \in DOMAIN surfs}]>>
         IN
         [result |-> IF p.res = "ok" THEN "ok"
                     ELSE IF p.res = "err" THEN "draw_err" ELSE "draw_panic",
          config |-> r.config, drew |-> TRUE, pass |-> p,
          steps |-> replaced \o damaged \o write_steps(p.written)]

\* State::handle(ConfigChanged) to its result; steps is what it did, in order:
\* the replace of Config::reload, the region writes of draw_all, and the
\* damage_buffer and commit on every value of State.surfaces
handle(cfg, disk, outs, file, surfs) ==
    LET r == Config_reload(cfg, disk) IN
    IF ~r.ok THEN [result |-> "reload_err", config |-> r.config, drew |-> FALSE,
                   pass |-> NoPass, steps |-> <<>>]
    ELSE LET p == draw_all(outs, r.config, file)
             replaced == <<[op |-> "replace", index |-> 0, surfaces |-> {}]>>
             damaged == <<[op |-> "damage_commit", index |-> 0,
                           surfaces |-> {surfs[n] : n \in DOMAIN surfs}]>>
         IN
         [result |-> IF p.res = "ok" THEN "ok"
                     ELSE IF p.res = "err" THEN "draw_err" ELSE "draw_panic",
          config |-> r.config, drew |-> TRUE, pass |-> p,
          steps |-> IF p.res = "ok"
                    THEN replaced \o write_steps(p.written) \o damaged
                    ELSE replaced \o write_steps(p.written)]

\* the reload consumer: rx.recv(), lock, handle(event).unwrap()
HandleConfigChanged(disk) ==
    /\ running
    /\ reloader = "recv"
    /\ ~poisoned
    /\ queue > 0
    /\ queue' = queue - 1
    /\ LET h == handle(config, disk, outputs, buffer_file, surfaces) IN
       /\ config' = h.config
       /\ pass' = IF h.drew THEN h.pass ELSE pass
       /\ handle_result' = h.result
       /\ handle_steps' = h.steps
       /\ reloader' = IF h.result = "ok" THEN "recv" ELSE "dead"
       /\ poisoned' = (h.result # "ok")
    /\ UNCHANGED <<running, sent, globalVars, builderVars, layoutVars,
                   barrierVars, lockVars>>

(* ------------------------------ the lock ------------------------------- *)
\* The actions above take a handler from its lock() to its return.  The ones
\* below take the threads one lock() at a time: a handler of the dispatch
\* thread is DispatchLock and then the handler's action, a ConfigChanged event
\* is ReloadRecv, ReloadLock and ReloadHandle.

\* dispatcher.state.lock() of a handler: returns when the mutex is free
DispatchLock ==
    /\ running /\ ~poisoned
    /\ dispatcher = "wait"
    /\ mutex = "free"
    /\ mutex' = "dispatch"
    /\ dispatcher' = "handler"
    /\ UNCHANGED <<threadVars, chanVars, stateVars>>

\* rx.recv() returns Ok(event)
ReloadRecv ==
    /\ running
    /\ reloader = "recv"
    /\ queue > 0
    /\ queue' = queue - 1
    /\ reloader' = "lock"
    /\ UNCHANGED <<running, poisoned, sent, lockVars, stateVars>>

ReloadLock_unguarded ==
    /\ running
    /\ reloader = "lock"
    /\ reloader' = IF poisoned THEN "dead" ELSE "handle"
    /\ mutex' = IF poisoned THEN mutex ELSE "reload"
    /\ UNCHANGED <<running, poisoned, dispatcher, chanVars, stateVars>>

\* state.lock().unwrap() of the reload consumer
ReloadLock ==
    /\ running
    /\ reloader = "lock"
    /\ mutex = "free"
    /\ reloader' = IF poisoned THEN "dead" ELSE "handle"
    /\ mutex' = IF poisoned THEN mutex ELSE "reload"
    /\ UNCHANGED <<running, poisoned, dispatcher, chanVars, stateVars>>

\* handle(event).unwrap() and the drop of the guard at the end of the statement
ReloadHandle(disk) ==
    /\ running
    /\ reloader = "handle"
    /\ mutex' = "free"
    /\ LET h == handle(config, disk, outputs, buffer_file, surfaces) IN
       /\ config' = h.config
       /\ pass' = IF h.drew THEN h.pass ELSE pass
       /\ handle_result' = h.result
       /\ handle_steps' = h.steps
       /\ reloader' = IF h.result = "ok" THEN "recv" ELSE "dead"
       /\ poisoned' = (h.result # "ok")
    /\ UNCHANGED <<running, dispatcher, chanVars, globalVars, builderVars,
                   layoutVars, barrierVars>>

Next ==
    \/ \E i \in Interfaces : RegistryGlobal(i)
    \/ RegistryOutput
    \/ \E f \in Formats : ShmFormat(f)
    \/ \E o \in 1..Len(proxies), f \in ModeFlags, m \in Modes : OutputMode(o, f, m)
    \/ \E o \in 1..Len(proxies), n \in Names : OutputName(o, n)
    \/ \E o \in 1..Len(proxies) : OutputDone(o)
    \/ \E s \in 1..Len(acks) : LayerSurfaceConfigure(s)
    \/ DispatchPoisoned
    \/ FileWritten
    \/ Sigusr1
    \/ \E disk \in DiskStates : HandleConfigChanged(disk)
    \/ DispatchLock
    \/ ReloadRecv
    \/ ReloadLock
    \/ \E disk \in DiskStates : ReloadHandle(disk)

Spec == Init /\ [][Next]_vars


(* ------------------- specifications per environment -------------------- *)
\* The environments below send a part of what Next can send; the handlers are
\* the ones above in each.

\* the name a compositor gives output o (its connector)
NameOf(o) == IF o = 1 THEN "a" ELSE "b"

\* the current mode of output o
ModeOf(o) == <<o, 1>>

\* output o has had no Done yet: a compositor sends one burst per bind
NotFinalized(o) == \A i \in 1..Len(outputs) : outputs[i].wl_output # o

\* no burst of another output is under way
OthersIdle(o) ==
    \A p \in 1..Len(proxies) : p # o => delivered[p] = NothingDelivered

\* started on a config file that does not load: no preferences
InitEmpty == Init /\ config = Config_new([loadable |-> FALSE, ini |-> EmptyMap])

\* output discovery: every kind of Mode and Name notification, in any
\* interleaving; nothing is configured and nothing reloaded
NextDiscovery ==
    \/ \E i \in Interfaces : RegistryGlobal(i)
    \/ RegistryOutput
    \/ \E o \in 1..Len(proxies), f \in ModeFlags, m \in Modes : OutputMode(o, f, m)
    \/ \E o \in 1..Len(proxies), n \in Names : OutputName(o, n)
    \/ \E o \in 1..Len(proxies) : OutputDone(o)

SpecDiscovery == InitEmpty /\ [][NextDiscovery]_vars

\* layout and barrier: each output gets one burst (Mode of its current mode,
\* its own name, Done); the bursts of different outputs interleave, and so do
\* the binds and the Configure notifications, which can repeat
NextLayout ==
    \/ \E i \in Interfaces : RegistryGlobal(i)
    \/ RegistryOutput
    \/ \E o \in 1..Len(proxies) :
          NotFinalized(o) /\ OutputMode(o, {"current"}, ModeOf(o))
    \/ \E o \in 1..Len(proxies) :
          NotFinalized(o) /\ OutputName(o, NameOf(o))
    \/ \E o \in 1..Len(proxies) : NotFinalized(o) /\ OutputDone(o)
    \/ \E s \in 1..Len(acks) : LayerSurfaceConfigure(s)

SpecLayout == InitEmpty /\ [][NextLayout]_vars

\* compositing and reload: any config file at each reload; outputs are bound
\* between bursts, the bursts of different outputs do not interleave, and each
\* surface is configured once
NextReload ==
    \/ \E i \in Interfaces : RegistryGlobal(i)
    \/ output_builders = <<>> /\ RegistryOutput
    \/ \E o \in 1..Len(proxies) :
          /\ NotFinalized(o) /\ OthersIdle(o)
          /\ OutputMode(o, {"current"}, ModeOf(o))
    \/ \E o \in 1..Len(proxies) :
          /\ NotFinalized(o) /\ OthersIdle(o)
          /\ OutputName(o, NameOf(o))
    \/ \E o \in 1..Len(proxies) :
          NotFinalized(o) /\ OthersIdle(o) /\ OutputDone(o)
    \/ \E s \in 1..Len(acks) : acks[s] = 0 /\ LayerSurfaceConfigure(s)
    \/ DispatchPoisoned
    \/ FileWritten
    \/ Sigusr1
    \/ \E disk \in DiskStates : HandleConfigChanged(disk)

SpecReload == InitEmpty /\ [][NextReload]_vars

\* the lock: the two threads one lock() at a time; outputs are bound and
\* finalized, surfaces configured once, any config file at each reload
NextLock ==
    \/ DispatchLock
    \/ \E i \in Interfaces : dispatcher = "handler" /\ RegistryGlobal(i)
    \/ dispatcher = "handler" /\ RegistryOutput
    \/ \E f \in Formats : dispatcher = "handler" /\ ShmFormat(f)
    \/ \E o \in 1..Len(proxies) :
          dispatcher = "handler" /\ NotFinalized(o) /\ OutputDone(o)
    \/ \E s \in 1..Len(acks) :
          dispatcher = "handler" /\ acks[s] = 0 /\ LayerSurfaceConfigure(s)
    \/ DispatchPoisoned
    \/ FileWritten
    \/ Sigusr1
    \/ ReloadRecv
    \/ ReloadLock
    \/ \E disk \in DiskStates : ReloadHandle(disk)

SpecLock == InitEmpty /\ [][NextLock]_vars


(* ------------------------------- claims -------------------------------- *)
\* sum of pixel_count over the first i monitors
RECURSIVE PixelsBefore(_, _)
PixelsBefore(outs, i) ==
    IF i = 0 THEN 0 ELSE outs[i].pixel_count + PixelsBefore(outs, i - 1)

\* byte length of the region a create_buffer call hands out
RegionBytes(r) == r.stride * r.height

\* C1: the regions of the monitors tile [0, 3*total_pixels): the i-th monitor in
\* arrival order starts at 3 * (pixel_count of the earlier ones), is
\* width*height*3 bytes long, each region starts where the one before ends, the
\* last one ends at 3*total_pixels, and total_pixels is the sum of pixel_count
\* over State.outputs.
RegionsTile ==
    /\ total_pixels = PixelsBefore(outputs, Len(outputs))
    /\ Len(regions) <= Len(outputs)
    /\ \A i \in 1..Len(regions) :
          /\ regions[i].offset = 3 * PixelsBefore(outputs, i - 1)
          /\ RegionBytes(regions[i]) = outputs[i].width * outputs[i].height * 3
          /\ i = 1 => regions[i].offset = 0
          /\ i > 1 => regions[i].offset =
                        regions[i - 1].offset + RegionBytes(regions[i - 1])
          /\ (i = Len(outputs)) =>
                regions[i].offset + RegionBytes(regions[i]) = 3 * total_pixels

RegionsTileWitness ==
    /\ Len(regions) = 2
    /\ Len(outputs) = 2
    /\ outputs[1].pixel_count = 2
    /\ outputs[2].pixel_count = 1
    /\ regions[2].offset = 6

\* what the compositor delivered for the i-th finalized Output
LastGeometry(i) == finalized[i].geom
LastName(i) == finalized[i].name

\* C2: with one output, the finalized Output carries the width and height of
\* the last geometry notification (a Mode of the current mode) and the name of
\* the last Name notification, whatever their order.
OneOutputLastWritten ==
    Len(proxies) = 1 =>
        \A i \in 1..Len(outputs) :
            /\ outputs[i].name = LastName(i)
            /\ LastGeometry(i) # <<0, 0>> =>
                  <<outputs[i].width, outputs[i].height>> = LastGeometry(i)

\* C3: with several outputs whose notifications interleave, each finalized
\* Output holds the values delivered for its own output: its name is the last
\* name delivered for it (none delivered: the default), and its geometry is one
\* delivered for it (or the default), never one delivered for another output.
OwnValuesOnly ==
    \A i \in 1..Len(outputs) :
        /\ outputs[i].name = LastName(i)
        /\ <<outputs[i].width, outputs[i].height>>
              \in finalized[i].geoms \cup {<<0, 0>>}

\* a step that acknowledges a configure of a surface already acknowledged
DuplicateAck ==
    \E s \in 1..Len(acks) : acks[s] >= 1 /\ acks' = [acks EXCEPT ![s] = @ + 1]

\* C4: the barrier releases once, when the count reaches the total, and a later
\* acknowledgment releases nothing; in particular a duplicate acknowledgment of
\* an already-counted surface never runs setup_buffers.
DuplicateAckReleasesNothing ==
    [][DuplicateAck => releases' = releases]_vars

\* no two finalized monitors share a name
DistinctNames ==
    \A i, j \in 1..Len(outputs) : outputs[i].name = outputs[j].name => i = j

\* C5: a buffer is attached to a surface only after that surface's own
\* configure was acknowledged (monitors of distinct names).
AttachedOnlyAfterConfigure ==
    DistinctNames => \A s \in attached : acks[s] >= 1

\* C6: after a completed setup_buffer_file the backing file and the shm pool
\* hold at least 3*total_pixels bytes, and neither size ever decreases.
CapacityCovers ==
    (running /\ Len(outputs) > 0) =>
        /\ buffer_file.some
        /\ shm_pool.some
        /\ buffer_file.len >= 3 * total_pixels
        /\ shm_pool.size >= 3 * total_pixels

CapacityGrows ==
    /\ buffer_file'.len >= buffer_file.len
    /\ shm_pool'.size >= shm_pool.size

CapacityCoversAndGrows == []CapacityCovers /\ [][CapacityGrows]_vars

CapacityWitness ==
    /\ running
    /\ Len(outputs) = 2
    /\ outputs[1].pixel_count > 0
    /\ outputs[2].pixel_count > 0
    /\ shm_pool.size = 3 * total_pixels

\* C7: finalizing a further monitor changes no registered monitor's region: the
\* i-th monitor keeps its offset and length in every later setup_buffers, and
\* every draw_all pass writes it at that offset.
RegionsKept ==
    /\ \A i \in 1..Len(regions) :
          /\ i <= Len(regions')
          /\ regions'[i].offset = regions[i].offset
          /\ RegionBytes(regions'[i]) = RegionBytes(regions[i])
    /\ \A k \in 1..Len(pass'.written) :
          LET w == pass'.written[k] IN
          w.index <= Len(regions') =>
              /\ w.offset = regions'[w.index].offset
              /\ w.length = RegionBytes(regions'[w.index])

RegionsNeverMove == [][RegionsKept]_vars

RegionsNeverMoveWitness ==
    /\ releases = 2
    /\ Len(regions) = 2
    /\ regions[2].offset > 0
    /\ Len(pass.written) = 2

\* monitor i of the last pass has a background whose image does not load
BrokenBackground(i) ==
    LET prefs == config.output_preferences.map IN
    /\ outputs[i].name \in DOMAIN prefs
    /\ prefs[outputs[i].name].background # NoBackground
    /\ image_load(prefs[outputs[i].name].background) = "err"

\* monitor i of the last pass has an image background in the Center mode
CenterBackground(i) ==
    LET prefs == config.output_preferences.map IN
    /\ outputs[i].name \in DOMAIN prefs
    /\ prefs[outputs[i].name].background # NoBackground
    /\ image_load(prefs[outputs[i].name].background) = "ok"
    /\ prefs[outputs[i].name].mode = "center"

WrittenAs(i, fill) ==
    \E k \in 1..Len(pass.written) :
        pass.written[k].index = i /\ pass.written[k].fill = fill

\* monitor i of the last pass has pixels, or no image is asked for it (Fit has
\* no canvas to place an image in on a monitor without pixels)
ImageHasCanvas(i) ==
    LET prefs == config.output_preferences.map IN
    \/ outputs[i].pixel_count > 0
    \/ outputs[i].name \notin DOMAIN prefs
    \/ prefs[outputs[i].name].background = NoBackground
    \/ prefs[outputs[i].name].mode # "fit"

\* the monitors of the last pass have pixels
SizedMonitors == \A i \in 1..pass.n : outputs[i].pixel_count > 0

\* C8: a monitor whose configured background is missing or undecodable gets
\* the solid fill, and draw_all returns no error because of it (monitors with
\* pixels, no monitor in the Center mode).
BrokenBackgroundFallsBack ==
    \A i \in 1..pass.n :
        (pass.res # "none" /\ SizedMonitors /\ BrokenBackground(i)
            /\ \A j \in 1..pass.n : ~CenterBackground(j)) =>
            (pass.res = "ok" /\ WrittenAs(i, "black"))

\* C9: in one pass, an error local to one monitor (image missing, undecodable,
\* Center mode) leaves the region of every other monitor written (a monitor
\* with pixels, names distinct, no Fit image asked on a monitor without pixels).
OtherMonitorsWritten ==
    \A j \in 1..pass.n :
        (pass.res # "none" /\ buffer_file.some /\ outputs[j].pixel_count > 0
            /\ DistinctNames
            /\ (\A i \in 1..pass.n : ImageHasCanvas(i))
            /\ ~BrokenBackground(j) /\ ~CenterBackground(j)) =>
            (WrittenAs(j, "black") \/ WrittenAs(j, "image"))

\* a step that handles ConfigChanged with a failing reload
ReloadFails == queue' = queue - 1 /\ handle_result' = "reload_err"

\* C10: when re-reading the configuration fails, output_preferences after the
\* handler equal output_preferences before it.
FailedReloadKeepsPreferences ==
    [][ReloadFails => config'.output_preferences = config.output_preferences]_vars

FailedReloadWitness ==
    /\ handle_result = "reload_err"
    /\ DOMAIN config.output_preferences.map = {"a", "b"}
    /\ reloader = "dead"

\* C11: a reload failure is non-fatal: after a ConfigChanged whose reload failed
\* the reload consumer is still receiving and the dispatch handlers can still
\* take the lock.
ReloadFailureNonFatal ==
    handle_result = "reload_err" => (reloader = "recv" /\ ~poisoned /\ running)

\* who holds the mutex is the thread that is inside a handler: a thread that
\* waits for its next event, or for the lock, does not hold it, and the two
\* threads are never inside a handler together
LockDiscipline ==
    /\ (mutex = "dispatch") <=> (dispatcher = "handler")
    /\ (mutex = "reload") <=> (reloader = "handle")
    /\ ~(dispatcher = "handler" /\ reloader = "handle")

\* a step that changes State is the step of a handler that holds the mutex
MutatesUnderLock ==
    stateVars' # stateVars =>
        /\ mutex \in {"dispatch", "reload"}
        /\ mutex' = "free"

\* C12: every handler that mutates State runs under the one mutex from its
\* lock() to its return, so two handlers never run together, and neither thread
\* holds the mutex while it waits for its next event.
HandlersUnderLock == []LockDiscipline /\ [][MutatesUnderLock]_vars

\* the reload consumer waits in lock() while a dispatch handler holds the mutex
HandlersUnderLockWitness ==
    /\ reloader = "lock"
    /\ mutex = "dispatch"
    /\ Len(outputs) >= 1
    /\ Len(shm_formats) >= 1

\* C13: every monitor in State.outputs has width > 0 and height > 0: a Done
\* for a slot whose geometry was never reported registers no Output.
RegisteredMonitorsSized ==
    \A i \in 1..Len(outputs) : outputs[i].width > 0 /\ outputs[i].height > 0

\* a step of the reload consumer that handles a ConfigChanged event with a
\* compositing pass, a second event being queued behind it
HandlesFirstOfTwo ==
    /\ queue >= 2
    /\ queue' < queue
    /\ handle_result' = "ok"

\* C14: two ConfigChanged events queued back to back are collapsed: the pass
\* that handles the first one leaves none of them queued, so they get one
\* compositing pass and not one each.
BackToBackCollapsed == [][HandlesFirstOfTwo => queue' = 0]_vars

\* monitor i has no entry in the output preferences, or an entry with no
\* background
NoBackgroundFor(i) ==
    LET prefs == config.output_preferences.map IN
    \/ outputs[i].name \notin DOMAIN prefs
    \/ prefs[outputs[i].name].background = NoBackground

\* the pass wrote monitor i's whole region with the solid fill
FilledBlack(i) ==
    \E k \in 1..Len(pass.written) :
        /\ pass.written[k].index = i
        /\ pass.written[k].fill = "black"
        /\ pass.written[k].length = outputs[i].pixel_count * 3

\* C15: in a compositing pass, a monitor with no entry in the output
\* preferences, or with an entry that has no background, gets its whole region
\* (pixel_count times 3 bytes) written with (0,0,0) (no Fit image asked on a
\* monitor without pixels).
NoBackgroundFilledBlack ==
    \A i \in 1..pass.n :
        (pass.res # "none" /\ buffer_file.some /\ outputs[i].pixel_count > 0
            /\ (\A j \in 1..pass.n : ImageHasCanvas(j))
            /\ NoBackgroundFor(i)) => FilledBlack(i)

\* monitor i was finalized after the barrier had released: a setup_buffers has
\* run and its calls did not include i
LateMonitor(i) == releases >= 1 /\ i > Len(regions)

\* a step that acknowledges the first configure of monitor i's own surface
OwnConfigureAcked(i) == acks[i] = 0 /\ acks'[i] = 1

\* monitor i has its buffer attached and its region written after the step
AttachedAndPainted(i) ==
    /\ i \in attached'
    /\ \E k \in 1..Len(pass'.written) : pass'.written[k].index = i

\* C16: a monitor finalized after the barrier has released gets its buffer
\* attached and its region painted when its own surface's configure is
\* acknowledged, however many acknowledgments the other surfaces have produced
\* (monitors of distinct names, with pixels).
LateMonitorServed ==
    [][\A i \in 1..Len(outputs) :
          (DistinctNames /\ outputs[i].pixel_count > 0 /\ LateMonitor(i)
              /\ OwnConfigureAcked(i)) => AttachedAndPainted(i)]_vars

\* C17: no two monitors in State.outputs have the same name, so surfaces holds
\* one surface per finalized monitor: surfaces.len() == outputs.len(), which is
\* the total the barrier waits for.
OneSurfacePerMonitor ==
    /\ DistinctNames
    /\ Cardinality(DOMAIN surfaces) = Len(outputs)

\* a step of the reload consumer that handles a ConfigChanged event whose
\* reload succeeds
ReloadSucceeds == queue' = queue - 1 /\ handle_result' # "reload_err"

\* steps is: the replace, then the writes of monitors 1..k in arrival order,
\* then, only when k is all n monitors and the handler returned Ok, one damage
\* and commit of every surface
StepsInOrder(steps, n, surfs, result) ==
    LET damaged == Len(steps) >= 1 /\ steps[Len(steps)].op = "damage_commit"
        k == IF damaged THEN Len(steps) - 2 ELSE Len(steps) - 1
    IN /\ Len(steps) >= 1
       /\ steps[1].op = "replace"
       /\ k >= 0 /\ k <= n
       /\ \A j \in 1..k : steps[j + 1].op = "write" /\ steps[j + 1].index = j
       /\ damaged => /\ k = n
                     /\ steps[Len(steps)].surfaces = {surfs[x] : x \in DOMAIN surfs}
       /\ (result = "ok") <=> damaged

\* C18: handling a ConfigChanged event whose reload succeeds replaces the
\* preferences, then repaints the regions of the registered monitors in arrival
\* order, and damages and commits every surface only after the whole pass: no
\* surface is damaged or committed before the last monitor's region is written.
ReloadStepsOrdered ==
    [][ReloadSucceeds =>
         StepsInOrder(handle_steps', Len(outputs), surfaces, handle_result')]_vars

ReloadStepsOrderedWitness ==
    /\ handle_result = "ok"
    /\ Len(handle_steps) = 4
    /\ Cardinality(handle_steps[4].surfaces) = 2
    /\ \E k \in 1..Len(pass.written) : pass.written[k].fill = "image"

\* C19: a compositing pass starts at byte 0 and writes pixel_count*3 bytes for
\* each monitor it writes, on the image paths and on the solid fill, so after
\* the i-th monitor's write the cursor is 3 * (pixel_count of the first i
\* monitors); the cursor check stops nothing: a pass that returns Ok has
\* written every monitor.
CursorTracksRegions ==
    pass.res # "none" =>
        /\ \A k \in 1..Len(pass.written) :
              /\ pass.written[k].index = k
              /\ pass.written[k].offset = 3 * PixelsBefore(outputs, k - 1)
              /\ pass.written[k].length = outputs[k].pixel_count * 3
        /\ pass.pos = 3 * PixelsBefore(outputs, Len(pass.written))
        /\ pass.res = "ok" => Len(pass.written) = pass.n

CursorTracksRegionsWitness ==
    /\ pass.res = "ok"
    /\ Len(pass.written) = 2
    /\ pass.pos > 0
    /\ \E k \in 1..2 : /\ pass.written[k].fill = "image"
                       /\ pass.written[k].length > 0
    /\ \E k \in 1..2 : pass.written[k].fill = "black"

\* the outputs that have had a notification since they were bound or last
\* finalized, and no Done yet
PendingOutputs ==
    {p \in 1..Len(proxies) : delivered[p] # NothingDelivered}

\* C20: output_builders holds the descriptors of the pending outputs and no
\* other: one per output that has had a notification and no Done yet; a Done
\* removes the descriptor of its own output and of no other.
BuildersArePending ==
    /\ Len(output_builders) = Cardinality(PendingOutputs)
    /\ \A p \in PendingOutputs :
          \E i \in 1..Len(output_builders) :
              /\ output_builders[i].name = delivered[p].name
              /\ <<output_builders[i].width, output_builders[i].height>>
                    = delivered[p].geom


\* the index the Done arm passes to output_builders.remove for proxy o is in
\* range of the builders it removes from
RemoveInRange(o) ==
    proxies[o] < Len(get_builder(output_builders, proxies[o]).builders)

\* C21: whenever the Done handler runs, for any proxy after any sequence of
\* binds and output notifications, output_builders.remove(output_id) is called
\* with output_id < output_builders.len().
DoneRemoveInRange ==
    [][\A o \in 1..Len(proxies) : OutputDone(o) => RemoveInRange(o)]_vars


\* a step in which draw_all runs: a ConfigChanged event whose reload loaded the
\* file, or a Configure that releases the barrier
DrawAllRuns == ReloadSucceeds \/ releases' = releases + 1

\* C22: whenever draw_all runs (a ConfigChanged event handled in any reachable
\* state, also before the first monitor is finalized, or a barrier release),
\* the backing buffer file exists and config.output_preferences is present.
DrawAllHasFileAndPreferences ==
    [][DrawAllRuns =>
        (buffer_file.some /\ config'.output_preferences.some)]_vars


\* what the claim says of the builder a Mode notification for proxy o works
\* on: with 'current' among the flags its width and height are the notified
\* ones, without it the builder is as it was
ModeApplied(o, flags, mode) ==
    LET g == get_builder(output_builders, proxies[o]) IN
    IF "current" \in flags
    THEN /\ output_builders'[g.at].width = mode[1]
         /\ output_builders'[g.at].height = mode[2]
    ELSE output_builders'[g.at] = g.builders[g.at]

\* C23: a Mode notification whose flags include 'current', alone or with other
\* flags, sets the slot's pending width and height to the notified values; a
\* Mode notification without 'current' leaves the pending descriptor unchanged.
CurrentModeSetsPending ==
    [][\A o \in 1..Len(proxies), f \in ModeFlags, m \in Modes :
          OutputMode(o, f, m) => ModeApplied(o, f, m)]_vars

=============================================================================
